---- MODULE Spec2Model ----
(***************************************************************************)
(* Order-to-cash process discovery interview (pawan2411/OrderMgMt).        *)
(*                                                                         *)
(* The model covers the conversation state machine of                      *)
(* OrderManager.process_input (src/order_mgmt.py), the schema helpers of   *)
(* src/attribute_schema.py it relies on, and the session routing of        *)
(* Orchestrator.handle_message (src/orchestrator.py).  The language model  *)
(* is an oracle: every call to it is a nondeterministic input.  An         *)
(* utterance is represented by its word count, an extraction by the        *)
(* mapping that json.loads returns.                                        *)
(***************************************************************************)
EXTENDS Integers, Sequences, FiniteSets, TLC

(***************************************************************************)
(* Bounds of the model.                                                    *)
(***************************************************************************)
\* the schema is cut after its first SchemaSize attributes (in 'order')
SchemaSize == 6
\* process_input calls per interview
MaxTurns == 5
\* keys in one oracle response
MaxExtracted == 2
\* interviews started in one session
MaxInterviews == 2
\* calls answered by the oracle before an outage begins
MaxWorkingTurns == 1
\* changes made to an aligned collected_data before analyze_gaps is called
MaxGapEdits == 1
\* the process_input calls of an interview over the whole table
MaxFullTurns == 4
\* the process_input calls made on two interviews run side by side
MaxSharedTurns == 4

(***************************************************************************)
(* Values.                                                                 *)
(***************************************************************************)
None == "None"
NotDiscussed == "[Not discussed]"
\* answers the oracle can report for a key
Values == {"EDI", "Portal"}
\* a key the oracle invents: not a key of REQUIRED_ATTRIBUTES
UnknownKey == "customer_mood"
\* word counts of the utterances: len(user_input.split())
WordCounts == {5, 14, 15}

(***************************************************************************)
(* Literals of the code.                                                   *)
(***************************************************************************)
\* len(user_input.split()) < 15
ShortAnswerWords == 15
\* clarification_count < 2
ClarificationBudget == 2
\* subclass_attempts < 3, subclass_attempts >= 3
SubclassAttemptBudget == 3
\* focus_area["attributes"][:3]
QuestionBatch == 3
\* len(user_input.split()) > 5
TriggerWords == 5
\* line 36: the entries of the transcript given as context
ContextEntries == 6

(***************************************************************************)
(* src/attribute_schema.py                                                 *)
(***************************************************************************)
SUBCLASS_FLOW_ORDER == <<
    <<"Order Demand & Validation", "Order Intake">>,
    <<"Order Demand & Validation", "Commercial Validation">>,
    <<"Order Demand & Validation", "Credit Governance">>,
    <<"Fulfillment & Distribution", "Inventory & Production">>,
    <<"Fulfillment & Distribution", "Warehouse Operations">>,
    <<"Fulfillment & Distribution", "Transportation Management">>,
    <<"Revenue Realization & Invoicing", "Billing Execution">>,
    <<"Revenue Realization & Invoicing", "Revenue Accounting">>,
    <<"Financial Settlements & Recovery", "Cash Application">>,
    <<"Financial Settlements & Recovery", "Dispute & Deduction Management">>,
    <<"Financial Settlements & Recovery", "Collections & Dunning">>,
    <<"Master Data & Lifecycle Support", "Customer Master & Onboarding">>,
    <<"Master Data & Lifecycle Support", "Reverse Logistics">>,
    <<"Master Data & Lifecycle Support", "Reporting & Audit Controls">>
>>

\* the attribute table, in the order of the dict literal
SchemaTable == <<
    [name |-> "source_channel", class |-> "Order Demand & Validation", subclass |-> "Order Intake", optional |-> FALSE, order |-> 1],
    [name |-> "intake_timestamp", class |-> "Order Demand & Validation", subclass |-> "Order Intake", optional |-> TRUE, order |-> 2],
    [name |-> "order_completeness_score", class |-> "Order Demand & Validation", subclass |-> "Order Intake", optional |-> FALSE, order |-> 3],
    [name |-> "sku_validity", class |-> "Order Demand & Validation", subclass |-> "Commercial Validation", optional |-> TRUE, order |-> 4],
    [name |-> "quantity_availability", class |-> "Order Demand & Validation", subclass |-> "Commercial Validation", optional |-> TRUE, order |-> 5],
    [name |-> "pricing_logic", class |-> "Order Demand & Validation", subclass |-> "Commercial Validation", optional |-> FALSE, order |-> 6],
    [name |-> "fob_terms", class |-> "Order Demand & Validation", subclass |-> "Commercial Validation", optional |-> TRUE, order |-> 7],
    [name |-> "credit_limit", class |-> "Order Demand & Validation", subclass |-> "Credit Governance", optional |-> FALSE, order |-> 8],
    [name |-> "risk_scoring", class |-> "Order Demand & Validation", subclass |-> "Credit Governance", optional |-> FALSE, order |-> 9],
    [name |-> "approval_workflow", class |-> "Order Demand & Validation", subclass |-> "Credit Governance", optional |-> FALSE, order |-> 10],
    [name |-> "order_status", class |-> "Order Demand & Validation", subclass |-> "Credit Governance", optional |-> FALSE, order |-> 11],
    [name |-> "stock_category", class |-> "Fulfillment & Distribution", subclass |-> "Inventory & Production", optional |-> FALSE, order |-> 12],
    [name |-> "warehouse_assignment", class |-> "Fulfillment & Distribution", subclass |-> "Inventory & Production", optional |-> FALSE, order |-> 13],
    [name |-> "production_queue_status", class |-> "Fulfillment & Distribution", subclass |-> "Inventory & Production", optional |-> FALSE, order |-> 14],
    [name |-> "picking_document_type", class |-> "Fulfillment & Distribution", subclass |-> "Warehouse Operations", optional |-> FALSE, order |-> 15],
    [name |-> "packing_status", class |-> "Fulfillment & Distribution", subclass |-> "Warehouse Operations", optional |-> TRUE, order |-> 16],
    [name |-> "system_reliability_metric", class |-> "Fulfillment & Distribution", subclass |-> "Warehouse Operations", optional |-> TRUE, order |-> 17],
    [name |-> "carrier_selection", class |-> "Fulfillment & Distribution", subclass |-> "Transportation Management", optional |-> FALSE, order |-> 18],
    [name |-> "tracking_id", class |-> "Fulfillment & Distribution", subclass |-> "Transportation Management", optional |-> FALSE, order |-> 19],
    [name |-> "shipping_mode", class |-> "Fulfillment & Distribution", subclass |-> "Transportation Management", optional |-> TRUE, order |-> 20],
    [name |-> "data_integrity_type", class |-> "Fulfillment & Distribution", subclass |-> "Transportation Management", optional |-> FALSE, order |-> 21],
    [name |-> "generation_trigger", class |-> "Revenue Realization & Invoicing", subclass |-> "Billing Execution", optional |-> FALSE, order |-> 22],
    [name |-> "invoice_format", class |-> "Revenue Realization & Invoicing", subclass |-> "Billing Execution", optional |-> FALSE, order |-> 23],
    [name |-> "landed_cost_calculation", class |-> "Revenue Realization & Invoicing", subclass |-> "Billing Execution", optional |-> FALSE, order |-> 24],
    [name |-> "revenue_recognition_event", class |-> "Revenue Realization & Invoicing", subclass |-> "Revenue Accounting", optional |-> FALSE, order |-> 25],
    [name |-> "tax_jurisdiction_vat_code", class |-> "Revenue Realization & Invoicing", subclass |-> "Revenue Accounting", optional |-> FALSE, order |-> 26],
    [name |-> "gl_account_mapping", class |-> "Revenue Realization & Invoicing", subclass |-> "Revenue Accounting", optional |-> FALSE, order |-> 27],
    [name |-> "remittance_method", class |-> "Financial Settlements & Recovery", subclass |-> "Cash Application", optional |-> FALSE, order |-> 28],
    [name |-> "auto_match_rate", class |-> "Financial Settlements & Recovery", subclass |-> "Cash Application", optional |-> FALSE, order |-> 29],
    [name |-> "unapplied_cash_balance", class |-> "Financial Settlements & Recovery", subclass |-> "Cash Application", optional |-> FALSE, order |-> 30],
    [name |-> "dispute_reason_code", class |-> "Financial Settlements & Recovery", subclass |-> "Dispute & Deduction Management", optional |-> TRUE, order |-> 31],
    [name |-> "case_owner", class |-> "Financial Settlements & Recovery", subclass |-> "Dispute & Deduction Management", optional |-> TRUE, order |-> 32],
    [name |-> "tracking_repository", class |-> "Financial Settlements & Recovery", subclass |-> "Dispute & Deduction Management", optional |-> TRUE, order |-> 33],
    [name |-> "ar_aging_bucket", class |-> "Financial Settlements & Recovery", subclass |-> "Collections & Dunning", optional |-> FALSE, order |-> 34],
    [name |-> "dunning_level", class |-> "Financial Settlements & Recovery", subclass |-> "Collections & Dunning", optional |-> FALSE, order |-> 35],
    [name |-> "bad_debt_provision_status", class |-> "Financial Settlements & Recovery", subclass |-> "Collections & Dunning", optional |-> FALSE, order |-> 36],
    [name |-> "legal_entity_name", class |-> "Master Data & Lifecycle Support", subclass |-> "Customer Master & Onboarding", optional |-> FALSE, order |-> 37],
    [name |-> "tax_id", class |-> "Master Data & Lifecycle Support", subclass |-> "Customer Master & Onboarding", optional |-> FALSE, order |-> 38],
    [name |-> "payment_terms", class |-> "Master Data & Lifecycle Support", subclass |-> "Customer Master & Onboarding", optional |-> FALSE, order |-> 39],
    [name |-> "credit_threshold", class |-> "Master Data & Lifecycle Support", subclass |-> "Customer Master & Onboarding", optional |-> FALSE, order |-> 40],
    [name |-> "setup_workflow_status", class |-> "Master Data & Lifecycle Support", subclass |-> "Customer Master & Onboarding", optional |-> FALSE, order |-> 41],
    [name |-> "return_authorization_number", class |-> "Master Data & Lifecycle Support", subclass |-> "Reverse Logistics", optional |-> TRUE, order |-> 42],
    [name |-> "inspection_result", class |-> "Master Data & Lifecycle Support", subclass |-> "Reverse Logistics", optional |-> TRUE, order |-> 43],
    [name |-> "restocking_fee_logic", class |-> "Master Data & Lifecycle Support", subclass |-> "Reverse Logistics", optional |-> TRUE, order |-> 44],
    [name |-> "credit_memo_status", class |-> "Master Data & Lifecycle Support", subclass |-> "Reverse Logistics", optional |-> TRUE, order |-> 45],
    [name |-> "kpis", class |-> "Master Data & Lifecycle Support", subclass |-> "Reporting & Audit Controls", optional |-> FALSE, order |-> 46],
    [name |-> "sod_flags", class |-> "Master Data & Lifecycle Support", subclass |-> "Reporting & Audit Controls", optional |-> FALSE, order |-> 47],
    [name |-> "sub_ledger_reconciliation_status", class |-> "Master Data & Lifecycle Support", subclass |-> "Reporting & Audit Controls", optional |-> FALSE, order |-> 48]
>>

\* the part of the table the model works on
Schema == SubSeq(SchemaTable, 1, SchemaSize)

(***************************************************************************)
(* State.                                                                  *)
(***************************************************************************)
VARIABLES
    mode,             \* session_state["mode"]; "unset" while the key is absent
    has_order_state,  \* "order_state" in session_state
    order_state,      \* session_state["order_state"]
    records,          \* number of records appended to RECORD_FILE
    started,          \* number of start_conversation calls
    response,         \* the reply returned by the last call
    outage_from,      \* process_input calls made when call_qwen began to fail
    last_call,        \* the last process_input call: the words of user_input,
                      \* its local captured_this_turn, the place of the
                      \* utterance in the transcript and the entries given to
                      \* the extraction as context
    idle_run,         \* history: the calls in a row, up to the last one, that
                      \* captured nothing with the focus on one subclass
    sink_writable,    \* whether RECORD_FILE can be opened for appending
    oracle_reply,     \* what the last extraction call got from the oracle
    gap_collected,    \* the collected_data handed to analyze_gaps
    gap_result,       \* what analyze_gaps returned for it
    last_message,     \* history: the words of the last message given to
                      \* handle_message and what route_query returned for it
    session_states,   \* the state dicts of the interviews run side by side on
                      \* one OrderManager; their collected_data,
                      \* conversation_history and user_responses hold
                      \* references to objects of the heap
    heap,             \* the dict and list objects the state dicts refer to
    session_inputs,   \* history: the process_input calls made on each
                      \* interview, with their place among all the calls
    REQUIRED_ATTRIBUTES  \* the module-level dict of attribute_schema.py, as the
                         \* list of its entries; no code writes to it

vars == <<mode, has_order_state, order_state, records, started, response, outage_from,
          last_call, idle_run, sink_writable, oracle_reply, gap_collected, gap_result,
          last_message, session_states, heap, session_inputs, REQUIRED_ATTRIBUTES>>


AttributeNames == {Schema[i].name : i \in 1..Len(Schema)}

get_attribute_info(attr_name) ==
    REQUIRED_ATTRIBUTES[CHOOSE i \in 1..Len(REQUIRED_ATTRIBUTES) :
                            REQUIRED_ATTRIBUTES[i].name = attr_name]

\* slip: 'in' for 'not in', so that only null entries count as missing
IsMissing_OnlyNull(attr_name, collected_data) ==
    /\ attr_name \in DOMAIN collected_data
    /\ collected_data[attr_name] = None

\* attr_name not in collected_data or collected_data[attr_name] is None
IsMissing(attr_name, collected_data) ==
    \/ attr_name \notin DOMAIN collected_data
    \/ collected_data[attr_name] = None

RECURSIVE InsertByOrder(_, _)
InsertByOrder(sorted, item) ==
    IF sorted = <<>> THEN <<item>>
    ELSE IF item.order < Head(sorted).order THEN <<item>> \o sorted
    ELSE <<Head(sorted)>> \o InsertByOrder(Tail(sorted), item)

\* list.sort(key=lambda x: x[1]): stable, ascending in 'order'
RECURSIVE SortByOrder(_)
SortByOrder(items) ==
    IF items = <<>> THEN <<>>
    ELSE InsertByOrder(SortByOrder(SubSeq(items, 1, Len(items) - 1)),
                       items[Len(items)])

Names(items) == [i \in 1..Len(items) |-> items[i].name]

\* slip: the test of the optional flag left out
MissingEntries_WithOptional(collected_data) ==
    LET IsCandidate(a) == IsMissing(a.name, collected_data)
    IN  SelectSeq(REQUIRED_ATTRIBUTES, IsCandidate)

\* the entries that are not optional and have no value in collected_data
MissingEntries(collected_data) ==
    LET IsCandidate(a) == ~a.optional /\ IsMissing(a.name, collected_data)
    IN  SelectSeq(REQUIRED_ATTRIBUTES, IsCandidate)

get_missing_attributes(collected_data) ==
    Names(SortByOrder(MissingEntries(collected_data)))

\* slip: the missing attributes grouped by class alone
MissingOfSubclass_ByClass(entries, key) ==
    LET InKey(a) == a.class = key[1]
    IN  Names(SortByOrder(SelectSeq(entries, InKey)))

\* missing[key], sorted by 'order'
MissingOfSubclass(entries, key) ==
    LET InKey(a) == <<a.class, a.subclass>> = key
    IN  Names(SortByOrder(SelectSeq(entries, InKey)))

\* the result list: one entry per key of SUBCLASS_FLOW_ORDER found in missing
FlowEntries(entries, present) ==
    [i \in 1..Len(present) |->
        [class |-> present[i][1], subclass |-> present[i][2],
         attributes |-> MissingOfSubclass(entries, present[i])]]

MissingBySubclass(entries) ==
    LET HasMissing(key) == \E i \in 1..Len(entries) :
                               <<entries[i].class, entries[i].subclass>> = key
    IN  FlowEntries(entries, SelectSeq(SUBCLASS_FLOW_ORDER, HasMissing))

get_missing_by_subclass(collected_data) ==
    MissingBySubclass(MissingEntries(collected_data))

\* the None that get_current_focus_area returns when nothing is missing
NoFocus == [class |-> None, subclass |-> None, attributes |-> <<>>]

is_complete(collected_data) == Len(get_missing_attributes(collected_data)) = 0

First(missing_by_subclass) ==
    IF missing_by_subclass # <<>> THEN missing_by_subclass[1] ELSE NoFocus

\* slip: the last subclass with missing attributes instead of the first
get_current_focus_area_Last(collected_data) ==
    LET Last(missing_by_subclass) ==
            IF missing_by_subclass # <<>>
            THEN missing_by_subclass[Len(missing_by_subclass)] ELSE NoFocus
    IN  Last(get_missing_by_subclass(collected_data))

get_current_focus_area(collected_data) ==
    First(get_missing_by_subclass(collected_data))

(***************************************************************************)
(* src/llm_utils.py: the oracle.                                           *)
(***************************************************************************)
MandatoryNames == {Schema[i].name : i \in {j \in 1..Len(Schema) : ~Schema[j].optional}}

OracleKeys ==
    MandatoryNames
    \cup {Schema[i].name : i \in {j \in 1..Len(Schema) :
              /\ Schema[j].optional
              /\ \A k \in 1..(j - 1) : ~Schema[k].optional}}
    \cup {UnknownKey}

TotalMandatory == Cardinality(MandatoryNames)

\* what extract_all_mentioned_attributes can return: {} on any failure,
\* otherwise the object json.loads found, whose values may be null.  The
\* responses of the model: up to MaxExtracted keys with the answer "EDI", one
\* non-optional key with another answer or with null, and an answer to
\* every non-optional key at once.
Extractions ==
    UNION {[D -> {"EDI"}] : D \in {E \in SUBSET OracleKeys : Cardinality(E) <= MaxExtracted}}
    \cup UNION {[{k} -> {v}] : k \in MandatoryNames, v \in (Values \cup {None})}
    \cup [MandatoryNames -> {"EDI"}]

EmptyExtraction == CHOOSE e \in Extractions : DOMAIN e = {}

(***************************************************************************)
(* src/llm_utils.py: call_qwen and the parsing done by                     *)
(* extract_all_mentioned_attributes.  A reply text is a sequence of        *)
(* tokens: an opening brace, a closing brace, a "key": value member, or    *)
(* any other text.                                                         *)
(***************************************************************************)
Member1 == "\"source_channel\": \"EDI\""
Member2 == "\"order_completeness_score\": \"Portal\""
Member3 == "\"pricing_logic\": \"Portal\""
MemberNull == "\"pricing_logic\": null"

Members == {Member1, Member2, Member3, MemberNull}

MemberKey(token) ==
    CASE token = Member1 -> "source_channel"
      [] token = Member2 -> "order_completeness_score"
      [] token = Member3 -> "pricing_logic"
      [] token = MemberNull -> "pricing_logic"

MemberValue(token) ==
    CASE token = Member1 -> "EDI"
      [] token = Member2 -> "Portal"
      [] token = Member3 -> "Portal"
      [] token = MemberNull -> None

\* what can happen in call_qwen: no client, create() raises, or the message
\* content, which is None or a text
Outcome(kind, text) == [kind |-> kind, text |-> text]

NoClient == Outcome("no client", <<>>)
Raises == Outcome("raises", <<>>)
NoContent == Outcome("None", <<>>)
Text(text) == Outcome("text", text)

\* lines 36-37: the message returned when there is no client
ErrorMessage == <<"Error: TOGETHER_API_KEY not set. Please set the environment variable.">>

\* lines 30-48
call_qwen(outcome) ==
    IF outcome.kind = "no client" THEN Text(ErrorMessage)
    ELSE IF outcome.kind = "raises" THEN NoContent
    ELSE outcome

\* json.loads made lenient: text between the members is passed over
json_loads_Lenient(json_str) ==
    LET n == Len(json_str)
        ok == /\ n >= 2
              /\ json_str[1] = "{"
              /\ json_str[n] = "}"
        at == {i \in 2..(n - 1) : json_str[i] \in Members}
        keys == {MemberKey(json_str[i]) : i \in at}
    IN  [ok |-> ok,
         value |-> IF ok
                   THEN [k \in keys |->
                            LET last == CHOOSE i \in at :
                                            /\ MemberKey(json_str[i]) = k
                                            /\ \A j \in at :
                                                   j > i => MemberKey(json_str[j]) # k
                            IN  MemberValue(json_str[last])]
                   ELSE EmptyExtraction]

\* json.loads on the tokens of json_str: an object is an opening brace, members
\* and a closing brace; anything else raises JSONDecodeError (ok is FALSE).
\* Of two members with one key the later one stays.
json_loads(json_str) ==
    LET n == Len(json_str)
        ok == /\ n >= 2
              /\ json_str[1] = "{"
              /\ json_str[n] = "}"
              /\ \A i \in 2..(n - 1) : json_str[i] \in Members
        keys == {MemberKey(json_str[i]) : i \in 2..(n - 1)}
    IN  [ok |-> ok,
         value |-> IF ok
                   THEN [k \in keys |->
                            LET last == CHOOSE i \in 2..(n - 1) :
                                            /\ MemberKey(json_str[i]) = k
                                            /\ \A j \in (i + 1)..(n - 1) :
                                                   MemberKey(json_str[j]) # k
                            IN  MemberValue(json_str[last])]
                   ELSE EmptyExtraction]

\* lines 265-269: the slice [start:end] of the content, from the first opening
\* brace to the last closing brace, parsed
ParseObject(content, start, end) ==
    IF json_loads(SubSeq(content, start, end)).ok
    THEN json_loads(SubSeq(content, start, end)).value
    ELSE EmptyExtraction

\* lines 262-272: rindex raises ValueError when there is no closing brace
FindObject(content) ==
    IF \A i \in 1..Len(content) : content[i] # "{" THEN EmptyExtraction
    ELSE IF \A i \in 1..Len(content) : content[i] # "}" THEN EmptyExtraction
    ELSE ParseObject(content,
                     CHOOSE i \in 1..Len(content) :
                         content[i] = "{" /\ \A j \in 1..(i - 1) : content[j] # "{",
                     CHOOSE i \in 1..Len(content) :
                         content[i] = "}" /\ \A j \in (i + 1)..Len(content) : content[j] # "}")

\* lines 254-272
ParseReply(content) ==
    IF content.kind = "None" \/ content.text = <<>>
    THEN EmptyExtraction
    ELSE FindObject(content.text)

extract_all_mentioned_attributes(outcome) == ParseReply(call_qwen(outcome))

\* the outcomes of the extraction call that are followed
FailedOutcomes ==
    {NoClient, Raises, NoContent,
     Text(<<>>),
     Text(<<"I could not find any attribute.">>),
     Text(<<"{">>),
     Text(<<"{", Member1>>),
     Text(<<"}", "{">>),
     Text(<<"{", "no attributes", "}">>),
     Text(<<"{", Member1, "and more", "}">>)}

ParsedOutcomes ==
    {Text(<<"{", "}">>),
     Text(<<"{", Member1, "}">>),
     Text(<<"{", MemberNull, "}">>),
     Text(<<"{", Member1, Member2, "}">>),
     Text(<<"{", Member1, Member3, "}">>),
     Text(<<"Here is the JSON:", "{", Member2, "}", "Hope this helps.">>)}

\* an object followed by text that holds a closing brace, or by a second
\* object
TrailingOutcomes ==
    {Text(<<"{", Member1, "}", "(see the schema", "}">>),
     Text(<<"{", Member1, "}", "{", Member2, "}">>)}

OracleOutcomes == FailedOutcomes \cup ParsedOutcomes \cup TrailingOutcomes

\* list[:n]
Prefix(list, n) == SubSeq(list, 1, IF Len(list) < n THEN Len(list) ELSE n)

\* attributes_to_ask, the attributes the generated question is about
generate_next_question(missing_attributes, focus_area) ==
    IF focus_area # NoFocus
    THEN Prefix(focus_area.attributes, QuestionBatch)
    ELSE Prefix(missing_attributes, QuestionBatch)

(***************************************************************************)
(* src/order_mgmt.py                                                       *)
(***************************************************************************)
\* the empty dict
EmptyData == [k \in {} |-> None]

\* user_style is derived and read by no decision of the state machine; it is
\* not part of the model.  user_responses is kept as its length.
get_initial_state ==
    [active |-> TRUE,
     collected_data |-> EmptyData,
     conversation_history |-> <<>>,
     user_responses |-> 0,
     question_count |-> 0,
     current_focus |-> NoFocus,
     last_subclass |-> None,
     subclass_attempts |-> 0,
     clarification_count |-> 0]

Reply(kind, attributes) == [kind |-> kind, attributes |-> attributes]

start_conversation ==
    [response |-> Reply("opening", <<>>),
     state |-> [get_initial_state EXCEPT !.conversation_history = <<"Bot">>],
     saved |-> 0]

\* lines 49-54 without the test of line 50: null values are stored too
Merge_StoreNull(collected_data, extracted) ==
    LET stored == DOMAIN extracted
    IN  [k \in DOMAIN collected_data \cup stored |->
            IF k \in stored THEN extracted[k] ELSE collected_data[k]]

\* lines 49-54 with a key that has a value left alone
Merge_KeepFirst(collected_data, extracted) ==
    LET stored == {k \in DOMAIN extracted :
                      extracted[k] # None /\ k \notin DOMAIN collected_data}
    IN  [k \in DOMAIN collected_data \cup stored |->
            IF k \in stored THEN extracted[k] ELSE collected_data[k]]

\* lines 49-54: every non-null pair of the extraction is stored
Merge(collected_data, extracted) ==
    LET stored == {k \in DOMAIN extracted : extracted[k] # None}
    IN  [k \in DOMAIN collected_data \cup stored |->
            IF k \in stored THEN extracted[k] ELSE collected_data[k]]

\* slip: the membership test of the skip loop inverted, nothing is written
Skip_Nothing(collected_data, focus_area) ==
    LET skipped_attrs == {focus_area.attributes[i] : i \in 1..Len(focus_area.attributes)}
        written == {attr \in skipped_attrs : attr \in DOMAIN collected_data}
    IN  [k \in DOMAIN collected_data \cup written |->
            IF k \in written THEN NotDiscussed ELSE collected_data[k]]

\* slip: the sentinel for every non-optional attribute of the focus subclass,
\* without the membership test
Skip_WholeSubclass(collected_data, focus_area) ==
    LET written == {a \in MandatoryNames :
                       get_attribute_info(a).subclass = focus_area.subclass}
    IN  [k \in DOMAIN collected_data \cup written |->
            IF k \in written THEN NotDiscussed ELSE collected_data[k]]

\* lines 123-127: the sentinel for the focus attributes not in collected_data
Skip(collected_data, focus_area) ==
    LET skipped_attrs == {focus_area.attributes[i] : i \in 1..Len(focus_area.attributes)}
        written == {attr \in skipped_attrs : attr \notin DOMAIN collected_data}
    IN  [k \in DOMAIN collected_data \cup written |->
            IF k \in written THEN NotDiscussed ELSE collected_data[k]]

\* lines 67-78: completion.  save_record (lines 166-183) runs first, at line
\* 69; its open() raises when RECORD_FILE cannot be written and nothing in
\* process_input catches that, so the call ends there with the error
Complete(state) ==
    IF sink_writable
    THEN [response |-> Reply("completion", <<>>),
          state |-> [state EXCEPT !.active = FALSE,
                                  !.conversation_history = Append(@, "Bot")],
          saved |-> 1]
    ELSE [response |-> Reply("error", <<>>), state |-> state, saved |-> 0]

\* lines 98-115 counting the clarification as a question asked
Clarify_Advances(focus_area, state) ==
    [response |-> Reply("clarification",
                        IF focus_area # NoFocus /\ focus_area.attributes # <<>>
                        THEN <<focus_area.attributes[1]>> ELSE <<>>),
     state |-> [state EXCEPT !.clarification_count = @ + 1,
                             !.question_count = @ + 1,
                             !.conversation_history = Append(@, "Bot")],
     saved |-> 0]

\* lines 98-115: a clarification about the first attribute of the focus
Clarify(focus_area, state) ==
    [response |-> Reply("clarification",
                        IF focus_area # NoFocus /\ focus_area.attributes # <<>>
                        THEN <<focus_area.attributes[1]>> ELSE <<>>),
     state |-> [state EXCEPT !.clarification_count = @ + 1,
                             !.conversation_history = Append(@, "Bot")],
     saved |-> 0]

\* lines 135-147: the next question, about focus_area
Ask(focus_area, state) ==
    [response |-> Reply("question",
                        generate_next_question(
                            get_missing_attributes(state.collected_data), focus_area)),
     state |-> [state EXCEPT !.current_focus = focus_area,
                             !.question_count = @ + 1,
                             !.conversation_history = Append(@, "Bot")],
     saved |-> 0]

\* lines 129-133: focus and missing are recomputed after the skip
AskAfterSkip(state) ==
    Ask(get_current_focus_area(state.collected_data), state)

\* lines 121-147 with the skip one attempt late
SkipOrAsk_Late(focus_area, state) ==
    IF state.subclass_attempts > SubclassAttemptBudget /\ focus_area # NoFocus
    THEN AskAfterSkip([state EXCEPT !.collected_data = Skip(@, focus_area),
                                    !.subclass_attempts = 0])
    ELSE Ask(focus_area, state)

\* lines 121-147
SkipOrAsk(focus_area, state) ==
    IF state.subclass_attempts >= SubclassAttemptBudget /\ focus_area # NoFocus
    THEN AskAfterSkip([state EXCEPT !.collected_data = Skip(@, focus_area),
                                    !.subclass_attempts = 0])
    ELSE Ask(focus_area, state)

\* lines 96-119 with the clarification limit tested by <= instead of <
Respond_OneMore(user_words, captured_this_turn, focus_area, state) ==
    IF /\ ~captured_this_turn
       /\ user_words < ShortAnswerWords
       /\ state.clarification_count <= ClarificationBudget
       /\ state.subclass_attempts < SubclassAttemptBudget
    THEN Clarify(focus_area, state)
    ELSE SkipOrAsk(focus_area,
                   [state EXCEPT !.clarification_count =
                                     IF captured_this_turn THEN 0 ELSE @])

\* lines 96-119 without the reset of lines 118-119
Respond_NoReset(user_words, captured_this_turn, focus_area, state) ==
    IF /\ ~captured_this_turn
       /\ user_words < ShortAnswerWords
       /\ state.clarification_count < ClarificationBudget
       /\ state.subclass_attempts < SubclassAttemptBudget
    THEN Clarify(focus_area, state)
    ELSE SkipOrAsk(focus_area, state)

\* lines 96-119
Respond(user_words, captured_this_turn, focus_area, state) ==
    IF /\ ~captured_this_turn
       /\ user_words < ShortAnswerWords
       /\ state.clarification_count < ClarificationBudget
       /\ state.subclass_attempts < SubclassAttemptBudget
    THEN Clarify(focus_area, state)
    ELSE SkipOrAsk(focus_area,
                   [state EXCEPT !.clarification_count =
                                     IF captured_this_turn THEN 0 ELSE @])

\* lines 80-94 with the attempts kept when the turn captured something
Track_KeepOnCapture(user_words, captured_this_turn, focus_area, state) ==
    Respond(user_words, captured_this_turn, focus_area,
        IF focus_area.subclass # None
        THEN [state EXCEPT
                 !.current_focus = focus_area,
                 !.last_subclass = focus_area.subclass,
                 !.subclass_attempts =
                     IF captured_this_turn THEN @
                     ELSE IF state.last_subclass # focus_area.subclass THEN 1
                     ELSE @ + 1]
        ELSE [state EXCEPT !.current_focus = focus_area])

\* lines 80-94: the focus and the attempts made on its subclass
Track(user_words, captured_this_turn, focus_area, state) ==
    Respond(user_words, captured_this_turn, focus_area,
        IF focus_area.subclass # None
        THEN [state EXCEPT
                 !.current_focus = focus_area,
                 !.last_subclass = focus_area.subclass,
                 !.subclass_attempts =
                     IF captured_this_turn THEN 0
                     ELSE IF state.last_subclass # focus_area.subclass THEN 1
                     ELSE @ + 1]
        ELSE [state EXCEPT !.current_focus = focus_area])

\* lines 63-82
CheckComplete(user_words, captured_this_turn, state) ==
    IF Len(get_missing_attributes(state.collected_data)) = 0
    THEN Complete(state)
    ELSE Track(user_words, captured_this_turn,
               get_current_focus_area(state.collected_data), state)

\* lines 46-54: captured_this_turn, set for every non-null pair extracted
Captured(extracted) == \E k \in DOMAIN extracted : extracted[k] # None

\* lines 31-54
process_input(user_words, extracted, state) ==
    CheckComplete(user_words,
                  Captured(extracted),
                  [state EXCEPT !.user_responses = @ + 1,
                                !.conversation_history = Append(@, "User"),
                                !.collected_data = Merge(@, extracted)])

\* the oracle is up
NoOutage == -1

\* the intent of a message route_query was not asked about
NoIntent == "not routed"

\* before the first handle_message call
NoMessage == [user_words |-> 0, intent |-> NoIntent]

\* before the first process_input call
NoCall == [user_words |-> 0, captured_this_turn |-> FALSE, utterance |-> 0,
           context |-> <<>>]

\* lines 35-37: conversation_history[-6:], as the places of the entries in
\* the transcript
recent_history(conversation_history) ==
    LET n == Len(conversation_history)
        first == IF n > ContextEntries THEN n - ContextEntries + 1 ELSE 1
    IN  [i \in 1..(n - first + 1) |-> first + i - 1]

\* the record of a process_input call on state: lines 31-33 append the
\* utterance to the transcript before lines 35-44 build the context
Call(user_words, extracted, state) ==
    [user_words |-> user_words,
     captured_this_turn |-> Captured(extracted),
     utterance |-> Len(state.conversation_history) + 1,
     context |-> recent_history(Append(state.conversation_history, "User"))]

\* no call yet, or the last call captured something or found nothing missing
NoRun == [subclass |-> None, turns |-> 0]

\* the run after a call on state that extracted the given mapping
IdleRun(run, extracted, state) ==
    IF Captured(extracted) \/ get_current_focus_area(state.collected_data) = NoFocus
    THEN NoRun
    ELSE [subclass |-> get_current_focus_area(state.collected_data).subclass,
          turns |-> IF run.subclass = get_current_focus_area(state.collected_data).subclass
                    THEN run.turns + 1 ELSE 1]

\* no extraction call yet, or one whose reply is not followed
NoReply == [reply |-> Outcome("not followed", <<>>), extracted |-> EmptyExtraction]

\* analyze_gaps not called yet
NoResult == [score |-> -1]

\* OrderManager used directly: a state created by start_conversation
Init ==
    /\ mode = "unset"
    /\ has_order_state = TRUE
    /\ order_state = start_conversation.state
    /\ records = 0
    /\ started = 1
    /\ response = start_conversation.response
    /\ outage_from = NoOutage
    /\ last_call = NoCall
    /\ idle_run = NoRun
    /\ sink_writable = TRUE
    /\ oracle_reply = NoReply
    /\ gap_collected = EmptyData
    /\ gap_result = NoResult
    /\ last_message = NoMessage
    /\ session_states = <<>>
    /\ heap = <<>>
    /\ session_inputs = <<>>
    /\ REQUIRED_ATTRIBUTES = Schema

\* Orchestrator: an empty session_state
InitSession ==
    /\ mode = "unset"
    /\ has_order_state = FALSE
    /\ order_state = get_initial_state
    /\ records = 0
    /\ started = 0
    /\ response = Reply("none", <<>>)
    /\ outage_from = NoOutage
    /\ last_call = NoCall
    /\ idle_run = NoRun
    /\ sink_writable = TRUE
    /\ oracle_reply = NoReply
    /\ gap_collected = EmptyData
    /\ gap_result = NoResult
    /\ last_message = NoMessage
    /\ session_states = <<>>
    /\ heap = <<>>
    /\ session_inputs = <<>>
    /\ REQUIRED_ATTRIBUTES = Schema

(***************************************************************************)
(* OrderManager.process_input called on the state.                         *)
(***************************************************************************)
ProcessInput(user_words, extracted) ==
    /\ has_order_state
    /\ LET result == process_input(user_words, extracted, order_state)
       IN  /\ order_state' = result.state
           /\ records' = records + result.saved
           /\ response' = result.response
    /\ last_call' = Call(user_words, extracted, order_state)
    /\ idle_run' = IdleRun(idle_run, extracted, order_state)
    /\ UNCHANGED <<mode, has_order_state, started, sink_writable, gap_collected,
                   gap_result, last_message, session_states, heap, session_inputs,
                   REQUIRED_ATTRIBUTES>>

(***************************************************************************)
(* src/orchestrator.py: Orchestrator.handle_message.  intent is what       *)
(* route_query returns for the message.                                    *)
(***************************************************************************)
Intents == {"ORDER_MGMT", "OTHER"}

\* line 52 with >= for >
HasData_AtLeast(user_words) == user_words >= TriggerWords

\* line 52: the message that starts the interview is more than a trigger
\* phrase
HasData(user_words) == user_words > TriggerWords

HandleMessage(user_words, intent, extracted) ==
    LET current_mode == IF mode = "unset" THEN "GENERAL" ELSE mode
    IN
    /\ last_message' = [user_words |-> user_words, intent |-> intent]
    /\ IF current_mode = "ORDER_MGMT"
       THEN IF ~has_order_state
            THEN \* lines 23-27
                 /\ started < MaxInterviews
                 /\ mode' = current_mode
                 /\ has_order_state' = TRUE
                 /\ order_state' = start_conversation.state
                 /\ response' = start_conversation.response
                 /\ started' = started + 1
                 /\ idle_run' = NoRun
                 /\ UNCHANGED <<records, last_call>>
            ELSE \* lines 30-38
                 /\ order_state.user_responses < MaxTurns
                 /\ LET result == process_input(user_words, extracted, order_state)
                    IN  /\ order_state' = result.state
                        /\ records' = records + result.saved
                        /\ response' = result.response
                        /\ mode' = IF ~result.state.active THEN "GENERAL" ELSE current_mode
                 /\ last_call' = Call(user_words, extracted, order_state)
                 /\ idle_run' = IdleRun(idle_run, extracted, order_state)
                 /\ UNCHANGED <<has_order_state, started>>
       ELSE IF intent = "ORDER_MGMT"
            THEN \* lines 44-58
                 /\ started < MaxInterviews
                 /\ mode' = "ORDER_MGMT"
                 /\ has_order_state' = TRUE
                 /\ started' = started + 1
                 /\ IF HasData(user_words)
                    THEN LET result == process_input(user_words, extracted,
                                                     start_conversation.state)
                         IN  /\ order_state' = result.state
                             /\ records' = records + result.saved
                             /\ response' = result.response
                             /\ last_call' = Call(user_words, extracted,
                                                   start_conversation.state)
                             /\ idle_run' = IdleRun(NoRun, extracted,
                                                    start_conversation.state)
                    ELSE /\ order_state' = start_conversation.state
                         /\ response' = start_conversation.response
                         /\ idle_run' = NoRun
                         /\ UNCHANGED <<records, last_call>>
            ELSE \* lines 60-63
                 /\ mode' = current_mode
                 /\ response' = Reply("refusal", <<>>)
                 /\ UNCHANGED <<has_order_state, order_state, records, started, last_call,
                                idle_run>>

(***************************************************************************)
(* Specifications.                                                         *)
(***************************************************************************)
\* process_input compares the word count with ShortAnswerWords only
AnswerWordCounts == {w \in WordCounts : w >= ShortAnswerWords - 1}

\* the longest interview followed when the oracle makes no progress
TurnLimit == 4 * TotalMandatory + 1

\* the longest outage followed
OutageLimit == TotalMandatory * (ClarificationBudget + 1) + 1

\* any sequence of process_input calls, whatever the oracle returns
Turn ==
    /\ order_state.user_responses < MaxTurns
    /\ \E user_words \in AnswerWordCounts, extracted \in Extractions :
           ProcessInput(user_words, extracted)
    /\ UNCHANGED <<outage_from, oracle_reply>>

Next == Turn

Spec == Init /\ [][Next]_vars

\* oracle outage: call_qwen returns None from some call on, and every
\* extraction from then on is the empty mapping
WorkingTurn ==
    /\ outage_from = NoOutage
    /\ order_state.user_responses < MaxWorkingTurns
    /\ Turn

OutageTurn ==
    /\ outage_from' = IF outage_from = NoOutage
                      THEN order_state.user_responses ELSE outage_from
    /\ order_state.user_responses - outage_from' < OutageLimit
    /\ \E user_words \in AnswerWordCounts : ProcessInput(user_words, EmptyExtraction)
    /\ UNCHANGED oracle_reply

NextOutage == WorkingTurn \/ OutageTurn

SpecOutage == Init /\ [][NextOutage]_vars

\* RECORD_FILE cannot be written: any sequence of process_input calls
InitSink ==
    /\ mode = "unset"
    /\ has_order_state = TRUE
    /\ order_state = start_conversation.state
    /\ records = 0
    /\ started = 1
    /\ response = start_conversation.response
    /\ outage_from = NoOutage
    /\ last_call = NoCall
    /\ idle_run = NoRun
    /\ sink_writable = FALSE
    /\ oracle_reply = NoReply
    /\ gap_collected = EmptyData
    /\ gap_result = NoResult
    /\ last_message = NoMessage
    /\ session_states = <<>>
    /\ heap = <<>>
    /\ session_inputs = <<>>
    /\ REQUIRED_ATTRIBUTES = Schema

NextSink == Turn

SpecSink == InitSink /\ [][NextSink]_vars

\* process_input with the reply of the extraction call followed
RawTurn ==
    /\ order_state.user_responses < MaxTurns
    /\ \E user_words \in AnswerWordCounts, outcome \in OracleOutcomes :
           /\ ProcessInput(user_words, extract_all_mentioned_attributes(outcome))
           /\ oracle_reply' = [reply |-> outcome,
                               extracted |-> extract_all_mentioned_attributes(outcome)]
    /\ UNCHANGED outage_from

NextRaw == RawTurn

SpecRaw == Init /\ [][NextRaw]_vars

\* an oracle that reports nothing new: nothing, an invented key, or a pair
\* that is already in collected_data
EchoExtractions ==
    {e \in Extractions :
        \A k \in DOMAIN e :
            \/ k = UnknownKey
            \/ k \in DOMAIN order_state.collected_data
                  /\ e[k] = order_state.collected_data[k]}

EchoTurn ==
    /\ order_state.user_responses < TurnLimit
    /\ \E user_words \in AnswerWordCounts, extracted \in EchoExtractions :
           ProcessInput(user_words, extracted)
    /\ UNCHANGED <<outage_from, oracle_reply>>

NextEcho == EchoTurn

SpecEcho == Init /\ [][NextEcho]_vars

\* a session driven through the Orchestrator only.  route_query is consulted
\* in GENERAL mode only, the extraction oracle only when process_input runs.

\* the answers of the oracle in a session: nothing, one non-optional key, or
\* every non-optional key at once
SessionExtractions ==
    {e \in Extractions :
        /\ DOMAIN e \subseteq MandatoryNames
        /\ Cardinality(DOMAIN e) \in {0, 1, TotalMandatory}
        /\ \A k \in DOMAIN e : e[k] = "EDI"}

MessageInInterview ==
    /\ mode = "ORDER_MGMT"
    /\ \E user_words \in AnswerWordCounts, extracted \in SessionExtractions :
           HandleMessage(user_words, NoIntent, extracted)
    /\ UNCHANGED <<outage_from, sink_writable, oracle_reply, gap_collected, gap_result,
                   session_states, heap, session_inputs, REQUIRED_ATTRIBUTES>>

MessageInGeneral ==
    /\ mode # "ORDER_MGMT"
    /\ \E user_words \in WordCounts, intent \in Intents :
           IF intent = "ORDER_MGMT" /\ HasData(user_words)
           THEN \E extracted \in SessionExtractions :
                    HandleMessage(user_words, intent, extracted)
           ELSE HandleMessage(user_words, intent, EmptyExtraction)
    /\ UNCHANGED <<outage_from, sink_writable, oracle_reply, gap_collected, gap_result,
                   session_states, heap, session_inputs, REQUIRED_ATTRIBUTES>>

NextSession == MessageInInterview \/ MessageInGeneral

SpecSession == InitSession /\ [][NextSession]_vars

(***************************************************************************)
(* src/sap_standard.py: SAP_BEST_PRACTICES, in the order of the dict.  The *)
(* standard of an entry is kept as the set of its lower-cased words; the   *)
(* keywords analyze_gaps looks for in a standard occur in these sixteen    *)
(* texts as whole words only.                                              *)
(***************************************************************************)
SAP_BEST_PRACTICES ==
    <<
    [attribute |-> "order_origin_channels",
     standard |-> {"multi-channel", "edi", "for", "large", "accounts", "b2b",
                   "portal", "mid-market", "manual", "entry", "as",
                   "exception"}],
    [attribute |-> "manual_intake_method",
     standard |-> {"digitized", "intake", "via", "scanning/ocr", "auto-create",
                   "from", "email", "attachments"}],
    [attribute |-> "order_receiver",
     standard |-> {"dedicated", "order", "desk", "team", "with", "sla-based",
                   "queues"}],
    [attribute |-> "captured_data_fields",
     standard |-> {"customer", "id", "material", "quantity", "price",
                   "delivery", "date", "ship-to", "payment", "terms", "po",
                   "number"}],
    [attribute |-> "primary_order_system",
     standard |-> {"integrated", "erp", "sap", "s/4hana", "with", "real-time",
                   "validation"}],
    [attribute |-> "manual_data_verification",
     standard |-> {"required", "field", "validation", "in", "erp", "before",
                   "save"}],
    [attribute |-> "automated_data_capture",
     standard |-> {"100%", "validation", "-", "all", "required", "fields",
                   "enforced", "before", "submission"}],
    [attribute |-> "required_verification_fields",
     standard |-> {"customer", "material", "qty", "price", "delivery", "date",
                   "ship-to", "credit", "status"}],
    [attribute |-> "verification_success_rate",
     standard |-> {">95%", "first-pass", "success", "rate"}],
    [attribute |-> "verification_owner",
     standard |-> {"system", "auto-validates", "exceptions", "to", "order",
                   "desk"}],
    [attribute |-> "credit_approval_type",
     standard |-> {"automated", "credit", "scoring", "with", "rule-based",
                   "limits"}],
    [attribute |-> "auto_approval_limit",
     standard |-> {"customer-specific", "based", "on", "credit", "score",
                   "and", "history"}],
    [attribute |-> "manual_credit_approver",
     standard |-> {"credit", "analyst", "with", "defined", "authority",
                   "matrix"}],
    [attribute |-> "credit_decision_factors",
     standard |-> {"ar", "balance", "dso", "payment", "history", "credit",
                   "score", "open", "orders", "value"}],
    [attribute |-> "credit_decision_to_sales",
     standard |-> {"real-time", "dashboard", "notification", "+", "email"}],
    [attribute |-> "credit_decision_to_customer",
     standard |-> {"automated", "notification", "via", "preferred", "channel"}]
    >>

SapKeys == {SAP_BEST_PRACTICES[i].attribute : i \in 1..Len(SAP_BEST_PRACTICES)}

(***************************************************************************)
(* src/gap_analysis.py: analyze_gaps.  A collected value is kept as its    *)
(* text, the first three characters of the lower-cased text, and the       *)
(* keywords of the heuristics that occur in the lower-cased text.          *)
(***************************************************************************)
Value(text, head, phrases) == [text |-> text, head |-> head, phrases |-> phrases]

Aligned == Value("EDI and B2B portal", <<"e", "d", "i">>, {})
OnPaper == Value("paper forms", <<"p", "a", "p">>, {"paper"})
ManualEntry == Value("manual entry from email", <<"m", "a", "n">>,
                     {"manual", "email", "manual entry"})
Rekeyed == Value("re-key into a separate system", <<"r", "e", "-">>,
                 {"re-key", "separate"})
ByPhone == Value("phone calls", <<"p", "h", "o">>, {"phone", "calls"})
Rate70 == Value("70%", <<"7", "0", "%">>, {})
Rate92 == Value("92%", <<"9", "2", "%">>, {})
About70 == Value("about 70%", <<"a", "b", "o">>, {})
Rate9p5 == Value("9.5%", <<"9", ".", "5">>, {})
Rate95 == Value("95%", <<"9", "5", "%">>, {})

GapValues ==
    {Aligned, OnPaper, ManualEntry, Rekeyed, ByPhone, Rate70, Rate92, About70, Rate9p5,
     Rate95}

\* word in current
Contains(current, words) == \E word \in words : word \in current.phrases

\* str.isdigit and the value of a digit
IsDigit(c) == c \in {"0", "1", "2", "3", "4", "5", "6", "7", "8", "9"}

DigitValue(c) ==
    CASE c = "0" -> 0 [] c = "1" -> 1 [] c = "2" -> 2 [] c = "3" -> 3 [] c = "4" -> 4
      [] c = "5" -> 5 [] c = "6" -> 6 [] c = "7" -> 7 [] c = "8" -> 8 [] c = "9" -> 9

\* int() of a string of digits
RECURSIVE IntOf(_)
IntOf(digits) ==
    IF Len(digits) = 1 THEN DigitValue(digits[1])
    ELSE 10 * IntOf(SubSeq(digits, 1, Len(digits) - 1)) + DigitValue(digits[Len(digits)])

NoIssue == "no issue"

\* lines 54-58
ManualIssue(row, current, issue) ==
    IF /\ Contains(current, {"manual", "paper", "email", "spreadsheet", "excel"})
       /\ \E word \in {"automated", "system", "real-time"} : word \in row.standard
    THEN "Manual process vs automated standard"
    ELSE issue

\* lines 60-68: int() raises on the empty string and the except passes
RateIssue(row, digits, issue) ==
    IF /\ row.attribute = "verification_success_rate"
       /\ digits # <<>>
       /\ IntOf(digits) < 90
    THEN "Success rate " \o ToString(IntOf(digits)) \o "% below 95% target"
    ELSE issue

\* lines 70-73
FragmentationIssue(row, current, issue) ==
    IF Contains(current, {"separate", "different system", "re-key", "manual entry"})
    THEN "System fragmentation vs integrated approach"
    ELSE issue

\* lines 75-80
NotificationIssue(row, current, issue) ==
    IF /\ row.attribute \in {"credit_decision_to_sales", "credit_decision_to_customer"}
       /\ Contains(current, {"phone", "calls", "email"})
       /\ \E word \in {"automated", "dashboard"} : word \in row.standard
    THEN "Manual notification vs automated alerts"
    ELSE issue

\* lines 51-80: the four tests run one after the other on the same gap_info,
\* each assigning gap_info["issue"] when it matches
IssueOf(row, current) ==
    NotificationIssue(row, current,
        FragmentationIssue(row, current,
            RateIssue(row, SelectSeq(current.head, IsDigit),
                ManualIssue(row, current, NoIssue))))

\* the loop run over the collected keys only: an absent key goes to no list
Verdict_CollectedOnly(row, collected_data) ==
    IF row.attribute \notin DOMAIN collected_data THEN "not visited"
    ELSE IF IssueOf(row, collected_data[row.attribute]) # NoIssue THEN "gap"
    ELSE "strength"

\* lines 28-89: the list an entry of the table goes to
Verdict(row, collected_data) ==
    IF row.attribute \notin DOMAIN collected_data THEN "missing"
    ELSE IF IssueOf(row, collected_data[row.attribute]) # NoIssue THEN "gap"
    ELSE "strength"

RowsOf(kind, collected_data) ==
    SelectSeq(SAP_BEST_PRACTICES, LAMBDA row : Verdict(row, collected_data) = kind)

\* lines 30-36, 44-49, 85-89: the entries appended to the lists
MissingEntry(row) == [attribute |-> row.attribute, issue |-> "Not yet captured"]

GapEntry(row, current_value) ==
    [attribute |-> row.attribute, current |-> current_value.text,
     issue |-> IssueOf(row, current_value)]

StrengthEntry(row, current_value) ==
    [attribute |-> row.attribute, current |-> current_value.text, aligned |-> TRUE]

\* line 21: list(SAP_BEST_PRACTICES.keys()), the keys as bare strings
BareKey(row) == [key |-> row.attribute]

\* lines 91-102.  len(strengths) / 16 * 100 is exact in floating point, and
\* int() drops the fraction
Report(gaps, strengths, missing, total_required) ==
    [gaps |-> gaps,
     strengths |-> strengths,
     missing |-> missing,
     score |-> IF total_required > 0
               THEN (Len(strengths) * 100) \div total_required ELSE 0,
     captured_count |-> Len(strengths) + Len(gaps),
     total_required |-> total_required]

\* lines 23-89
Listed(g, s, m, collected_data) ==
    Report([i \in 1..Len(g) |-> GapEntry(g[i], collected_data[g[i].attribute])],
           [i \in 1..Len(s) |-> StrengthEntry(s[i], collected_data[s[i].attribute])],
           [i \in 1..Len(m) |-> MissingEntry(m[i])],
           Len(SAP_BEST_PRACTICES))

analyze_gaps(collected_data) ==
    IF DOMAIN collected_data = {}
    THEN [gaps |-> <<>>, strengths |-> <<>>, score |-> 0,
          missing |-> [i \in 1..Len(SAP_BEST_PRACTICES) |-> BareKey(SAP_BEST_PRACTICES[i])]]
    ELSE Listed(RowsOf("gap", collected_data), RowsOf("strength", collected_data),
                RowsOf("missing", collected_data), collected_data)

\* the inputs of analyze_gaps: the first n attributes of the table collected
\* with an aligned answer, then up to MaxGapEdits changes, each one setting a
\* key to some value or removing a key.  The keys changed: one whose standard
\* names no automation, one whose standard does, the success rate, one of the
\* two notification keys, and a key that is not in the table
FirstKeys(n) == {SAP_BEST_PRACTICES[i].attribute : i \in 1..n}

EditKeys ==
    {"order_origin_channels", "primary_order_system", "verification_success_rate",
     "credit_decision_to_sales", UnknownKey}

OneEdit(data) ==
    {[k \in DOMAIN data \cup {key} |-> IF k = key THEN v ELSE data[k]] :
        key \in EditKeys, v \in GapValues}
    \cup {[k \in DOMAIN data \ {key} |-> data[k]] : key \in DOMAIN data \cap EditKeys}

RECURSIVE EditedUpTo(_, _)
EditedUpTo(data, n) ==
    IF n = 0 THEN {data}
    ELSE EditedUpTo(data, n - 1)
         \cup UNION {OneEdit(d) : d \in EditedUpTo(data, n - 1)}

GapInputs ==
    UNION {EditedUpTo([k \in FirstKeys(n) |-> Aligned], MaxGapEdits) :
              n \in 0..Len(SAP_BEST_PRACTICES)}

InitGap ==
    /\ mode = "unset"
    /\ has_order_state = TRUE
    /\ order_state = start_conversation.state
    /\ records = 0
    /\ started = 1
    /\ response = start_conversation.response
    /\ outage_from = NoOutage
    /\ last_call = NoCall
    /\ idle_run = NoRun
    /\ sink_writable = TRUE
    /\ oracle_reply = NoReply
    /\ gap_collected \in GapInputs
    /\ gap_result = NoResult
    /\ last_message = NoMessage
    /\ session_states = <<>>
    /\ heap = <<>>
    /\ session_inputs = <<>>
    /\ REQUIRED_ATTRIBUTES = Schema

Analyze ==
    /\ gap_result = NoResult
    /\ gap_result' = analyze_gaps(gap_collected)
    /\ UNCHANGED <<mode, has_order_state, order_state, records, started, response,
                   outage_from, last_call, idle_run, sink_writable, oracle_reply,
                   gap_collected, last_message, session_states, heap, session_inputs,
                   REQUIRED_ATTRIBUTES>>

NextGap == Analyze

SpecGap == InitGap /\ [][NextGap]_vars

(***************************************************************************)
(* The interview over the whole attribute table.                           *)
(***************************************************************************)
\* the answer "EDI" to every non-optional attribute of the given subclasses
AnswersTo(table, subclasses) ==
    [a \in {table[i].name : i \in {j \in 1..Len(table) :
                                      /\ ~table[j].optional
                                      /\ table[j].subclass \in subclasses}} |-> "EDI"]

FlowSubclasses(from, to) == {SUBCLASS_FLOW_ORDER[i][2] : i \in from..to}

\* what the oracle returns in these interviews: nothing; answers to the
\* first subclasses of the flow; answers to one later subclass; an answer to
\* a single attribute inside a subclass; an optional attribute, answered or
\* null
FullExtractions(table) ==
    {AnswersTo(table, FlowSubclasses(1, n)) : n \in 0..Len(SUBCLASS_FLOW_ORDER)}
    \cup {AnswersTo(table, {s}) :
              s \in {"Credit Governance", "Customer Master & Onboarding"}}
    \cup {[k \in {a} |-> "EDI"] :
              a \in {"risk_scoring", "dispute_reason_code", "credit_memo_status"}}
    \cup {[k \in {"case_owner"} |-> None]}

InitFull ==
    /\ mode = "unset"
    /\ has_order_state = TRUE
    /\ order_state = start_conversation.state
    /\ records = 0
    /\ started = 1
    /\ response = start_conversation.response
    /\ outage_from = NoOutage
    /\ last_call = NoCall
    /\ idle_run = NoRun
    /\ sink_writable = TRUE
    /\ oracle_reply = NoReply
    /\ gap_collected = EmptyData
    /\ gap_result = NoResult
    /\ last_message = NoMessage
    /\ session_states = <<>>
    /\ heap = <<>>
    /\ session_inputs = <<>>
    /\ REQUIRED_ATTRIBUTES = SchemaTable

FullTurn ==
    /\ order_state.user_responses < MaxFullTurns
    /\ \E user_words \in AnswerWordCounts,
          extracted \in FullExtractions(REQUIRED_ATTRIBUTES) :
           ProcessInput(user_words, extracted)
    /\ UNCHANGED <<outage_from, oracle_reply>>

NextFull == FullTurn

SpecFull == InitFull /\ [][NextFull]_vars

(***************************************************************************)
(* Two interviews run side by side on one OrderManager.  A state dict is   *)
(* an object of its own; its dict and its two lists are objects of the     *)
(* heap that process_input changes in place.                               *)
(***************************************************************************)
Sessions == {1, 2}

ContainerFields == {"collected_data", "conversation_history", "user_responses"}

\* slip: the dict and the lists of one module-level template handed to every
\* state
Allocate_Shared(session, field) == <<0, field>>

\* lines 11-20: the dict and list displays of the literal make new objects
\* at every call
Allocate(session, field) == <<session, field>>

\* lines 11-20: the state dict get_initial_state returns for the session
NewState(session) ==
    [get_initial_state EXCEPT
        !.collected_data = Allocate(session, "collected_data"),
        !.conversation_history = Allocate(session, "conversation_history"),
        !.user_responses = Allocate(session, "user_responses")]

\* the heap once get_initial_state has made the objects of the session
Allocated(h, session) ==
    [r \in DOMAIN h \cup {Allocate(session, f) : f \in ContainerFields} |->
        IF r \in DOMAIN h THEN h[r] ELSE get_initial_state[r[2]]]

\* the state dict as process_input reads it
Deref(state, h) ==
    [state EXCEPT !.collected_data = h[@],
                  !.conversation_history = h[@],
                  !.user_responses = h[@]]

\* the state dict after a call: the keys bound to the dict and the lists are
\* never assigned, the other keys hold the new values
Rebound(result_state, state) ==
    [result_state EXCEPT !.collected_data = state.collected_data,
                         !.conversation_history = state.conversation_history,
                         !.user_responses = state.user_responses]

\* lines 31-33, 51, 77, 114, 126, 146: the dict and the lists changed in place
Stored(h, state, result_state) ==
    [h EXCEPT ![state.collected_data] = result_state.collected_data,
              ![state.conversation_history] = result_state.conversation_history,
              ![state.user_responses] = result_state.user_responses]

\* the process_input calls made so far on all interviews
TotalCalls ==
    Cardinality(UNION {{<<s, i>> : i \in 1..Len(session_inputs[s])} :
                          s \in DOMAIN session_inputs})

\* the answers of the oracle: nothing, the first attribute, or every
\* non-optional attribute
SharedExtractions ==
    {e \in SessionExtractions : DOMAIN e \in {{}, {Schema[1].name}, MandatoryNames}}

\* lines 149-164: start_conversation for a new interview
StartSession(session) ==
    /\ session \notin DOMAIN session_states
    /\ session_states' =
           [s \in DOMAIN session_states \cup {session} |->
               IF s = session THEN NewState(session) ELSE session_states[s]]
    /\ heap' = [Allocated(heap, session) EXCEPT
                   ![Allocate(session, "conversation_history")] = Append(@, "Bot")]
    /\ session_inputs' =
           [s \in DOMAIN session_inputs \cup {session} |->
               IF s = session THEN <<>> ELSE session_inputs[s]]
    /\ response' = start_conversation.response
    /\ UNCHANGED <<mode, has_order_state, order_state, records, started, outage_from,
                   last_call, idle_run, sink_writable, oracle_reply, gap_collected,
                   gap_result, last_message, REQUIRED_ATTRIBUTES>>

\* lines 22-147: process_input called on the state dict of one interview
SessionTurn(session) ==
    /\ session \in DOMAIN session_states
    /\ TotalCalls < MaxSharedTurns
    /\ \E user_words \in AnswerWordCounts, extracted \in SharedExtractions :
           LET result == process_input(user_words, extracted,
                                       Deref(session_states[session], heap))
           IN  /\ session_states' =
                      [session_states EXCEPT
                          ![session] = Rebound(result.state, session_states[session])]
               /\ heap' = Stored(heap, session_states[session], result.state)
               /\ records' = records + result.saved
               /\ response' = result.response
               /\ session_inputs' =
                      [session_inputs EXCEPT
                          ![session] = Append(@, [user_words |-> user_words,
                                                  extracted |-> extracted,
                                                  place |-> TotalCalls + 1])]
    /\ UNCHANGED <<mode, has_order_state, order_state, started, outage_from,
                   last_call, idle_run, sink_writable, oracle_reply, gap_collected,
                   gap_result, last_message, REQUIRED_ATTRIBUTES>>

NextShared == \E session \in Sessions : StartSession(session) \/ SessionTurn(session)

SpecShared == InitSession /\ [][NextShared]_vars

(***************************************************************************)
(* Properties.                                                             *)
(***************************************************************************)
collected == order_state.collected_data

Answered(a) == a \in DOMAIN collected /\ collected[a] # None

Unanswered == {a \in MandatoryNames : ~Answered(a)}

\* the unanswered non-optional attribute of lowest 'order'
FirstUnanswered ==
    CHOOSE a \in Unanswered :
        \A b \in Unanswered : get_attribute_info(a).order <= get_attribute_info(b).order

\* C1: whenever active is false every non-optional attribute has a non-null
\* value in collected_data; while one is missing, active stays true.
C1_InactiveMeansAnswered ==
    has_order_state => (order_state.active \/ Unanswered = {})

\* an interview that ended with a force-skipped attribute beside a real answer
C1_Witness ==
    /\ ~order_state.active
    /\ \E a \in MandatoryNames : Answered(a) /\ collected[a] = NotDiscussed
    /\ \E a \in MandatoryNames : Answered(a) /\ collected[a] \in Values

\* C2: once every extraction returns the empty mapping, the interview is
\* inactive after at most TotalMandatory * (ClarificationBudget + 1) calls.
C2_OutageTerminates ==
    (/\ outage_from # NoOutage
     /\ order_state.user_responses - outage_from
            >= TotalMandatory * (ClarificationBudget + 1))
    => ~order_state.active

\* an interview spent entirely under the outage, ended by force-skips alone
C2_Witness ==
    /\ outage_from = 0
    /\ ~order_state.active
    /\ order_state.user_responses <= TotalMandatory * (ClarificationBudget + 1)
    /\ \A a \in MandatoryNames : Answered(a) /\ collected[a] = NotDiscussed

\* C3: whatever the oracle returns, the interview is inactive after at most
\* TotalMandatory * 4 calls of process_input.
C3_BoundedTurns ==
    order_state.user_responses >= TotalMandatory * 4 => ~order_state.active

\* C4: a value stored for a key is never replaced by a later extraction.
C4_FirstWriteWins ==
    [][\A k \in DOMAIN collected :
          order_state'.collected_data[k] = collected[k]]_vars

\* a turn in which the skip branch ran: a key received the sentinel
SkipRan ==
    \E k \in DOMAIN order_state'.collected_data :
        /\ k \notin DOMAIN collected
        /\ order_state'.collected_data[k] = NotDiscussed

\* C5: in a turn where the skip branch runs, every key that held a real
\* value before the skip holds the same value after it.
C5_SkipKeepsRealValues ==
    [][SkipRan =>
          \A k \in DOMAIN collected :
              collected[k] # NotDiscussed =>
                  order_state'.collected_data[k] = collected[k]]_vars

\* the first subclass was force-skipped while one of its keys held an answer
C5_Witness ==
    /\ order_state.active
    /\ order_state.last_subclass = "Order Intake"
    /\ Answered("source_channel") /\ collected["source_channel"] \in Values
    /\ Answered("order_completeness_score")
    /\ collected["order_completeness_score"] = NotDiscussed

\* C6: every key of collected_data is a key of REQUIRED_ATTRIBUTES.
C6_OnlySchemaKeys == DOMAIN collected \subseteq AttributeNames

\* C7: a question or clarification targets first the lowest-order missing
\* non-optional attribute, and every attribute it is about is missing.
C7_TargetsFirstMissing ==
    response.kind \in {"question", "clarification"} =>
        /\ Unanswered # {} =>
              /\ response.attributes # <<>>
              /\ response.attributes[1] = FirstUnanswered
        /\ \A i \in 1..Len(response.attributes) :
              response.attributes[i] \in Unanswered

\* the first utterance answers A and C, the question targets B
C7_Witness ==
    /\ order_state.user_responses = 1
    /\ Answered("source_channel") /\ Answered("pricing_logic")
    /\ response.kind = "question"
    /\ response.attributes[1] = "order_completeness_score"

\* C8: save_record runs once per interview, in the turn that ends it: the
\* file holds one record per ended interview and none for the running one.
C8_SavedOncePerInterview ==
    records = IF has_order_state /\ ~order_state.active THEN started
              ELSE IF started = 0 THEN 0 ELSE started - 1

\* C9: once the interview is inactive, no later call on the same session runs
\* process_input on it, changes its collected_data or makes it active again.
C9_CompletedIsTerminal ==
    [][(has_order_state /\ ~order_state.active /\ started' = started) =>
          /\ order_state'.user_responses = order_state.user_responses
          /\ order_state'.collected_data = collected
          /\ ~order_state'.active]_vars

\* C10: a call whose force-skip leaves no non-optional attribute missing
\* completes the interview in that call instead of returning a question.
C10_LastSkipCompletes ==
    (has_order_state /\ order_state.active) => Unanswered # {}

\* a process_input call has just been made on the interview
Called == order_state'.user_responses = order_state.user_responses + 1

\* the call just made was answered with a clarification prompt
Clarified == Called /\ response'.kind = "clarification"

\* C11 as written: over the turns of one interview at most ClarificationBudget
\* are answered with a clarification prompt, whatever is captured in between.
\* While the interview is active every turn so far was answered with a
\* clarification or with a question, so the clarification turns are the
\* responses that did not raise question_count.
C11_TwoClarificationsPerInterview ==
    order_state.active =>
        order_state.user_responses - order_state.question_count <= ClarificationBudget

\* C11 (amended): the clarification budget covers a run of turns without a
\* capture.  clarification_count counts the clarification prompts of the run:
\* a prompt is given only while it is below ClarificationBudget and raises it
\* by one, it never exceeds ClarificationBudget, no turn without a capture
\* lowers it, and a capturing turn answered with a question resets it to 0.
C11_TwoClarificationsPerRun ==
    [][Called =>
          /\ order_state'.clarification_count <= ClarificationBudget
          /\ Clarified =>
                 /\ ~last_call'.captured_this_turn
                 /\ order_state.clarification_count < ClarificationBudget
                 /\ order_state'.clarification_count = order_state.clarification_count + 1
          /\ (~Clarified /\ ~last_call'.captured_this_turn) =>
                 order_state'.clarification_count = order_state.clarification_count
          /\ (last_call'.captured_this_turn /\ response'.kind = "question") =>
                 order_state'.clarification_count = 0]_vars

\* a third clarification prompt in one interview, given after a capture
\* reset the count
C11_Witness ==
    /\ order_state.active
    /\ response.kind = "clarification"
    /\ order_state.user_responses - order_state.question_count > ClarificationBudget
    /\ \E a \in DOMAIN collected : collected[a] \notin {None, NotDiscussed}

\* the subclass the interview is on, and its unanswered non-optional attributes
FocusSubclass == get_attribute_info(FirstUnanswered).subclass

FocusOpen == {a \in Unanswered : get_attribute_info(a).subclass = FocusSubclass}

\* a call with a short utterance that captured nothing, made while something
\* is unanswered
ShortEmptyCall ==
    /\ Called
    /\ Unanswered # {}
    /\ ~last_call'.captured_this_turn
    /\ last_call'.user_words < ShortAnswerWords

\* the budgets as the call finds them: this call is the third attempt in a
\* row on the focus subclass; two clarification prompts have been given
RetryExhausted ==
    /\ order_state.last_subclass = FocusSubclass
    /\ order_state.subclass_attempts >= SubclassAttemptBudget - 1

ClarificationExhausted == order_state.clarification_count >= ClarificationBudget

\* the call force-skipped the focus subclass
FocusSkipped ==
    /\ \A a \in FocusOpen :
           /\ a \in DOMAIN order_state'.collected_data
           /\ order_state'.collected_data[a] = NotDiscussed
    /\ order_state'.subclass_attempts = 0

\* C12 as written: on a short turn that captured nothing, if either the
\* clarification budget or the per-topic retry budget is exhausted, every
\* missing non-optional attribute of the focus subclass is set to the
\* sentinel in that turn and subclass_attempts is reset to 0.
C12_EitherBudgetSkips ==
    [][(ShortEmptyCall /\ (ClarificationExhausted \/ RetryExhausted))
          => FocusSkipped]_vars

\* C12 (amended): on a short turn that captured nothing, if the per-topic
\* retry budget is exhausted the focus subclass is force-skipped and
\* subclass_attempts reset to 0; if only the clarification budget is
\* exhausted the turn is answered with a question and collected_data stays as
\* it was.
C12_RetryBudgetSkips ==
    [][ShortEmptyCall =>
          /\ RetryExhausted => FocusSkipped
          /\ (ClarificationExhausted /\ ~RetryExhausted) =>
                 /\ response'.kind = "question"
                 /\ order_state'.collected_data = collected]_vars

\* a short empty turn has just force-skipped the first subclass
C12_Witness ==
    /\ ~last_call.captured_this_turn
    /\ last_call.user_words < ShortAnswerWords
    /\ order_state.user_responses >= SubclassAttemptBudget
    /\ response.kind = "question"
    /\ order_state.subclass_attempts = 0
    /\ order_state.clarification_count = ClarificationBudget
    /\ DOMAIN collected = {"source_channel", "order_completeness_score"}
    /\ \A a \in DOMAIN collected : collected[a] = NotDiscussed

C14_SaveFailureStillCompletes ==
    (/\ ~sink_writable
     /\ order_state.user_responses > 0
     /\ Unanswered = {}
     /\ response.kind # "question")
        => (~order_state.active /\ response.kind = "completion")

\* C15: across the process_input calls of an interview no key is removed
\* from collected_data and no key holds null, so the set of unanswered
\* non-optional attributes never grows.
C15_CollectedGrows ==
    [][Called =>
          /\ DOMAIN collected \subseteq DOMAIN order_state'.collected_data
          /\ \A k \in DOMAIN order_state'.collected_data :
                 order_state'.collected_data[k] # None
          /\ Unanswered' \subseteq Unanswered]_vars

\* three calls on: an answer given, replaced and kept, an optional key
\* stored, and one attribute still unanswered
C15_Witness ==
    /\ order_state.user_responses >= 3
    /\ Answered("source_channel") /\ collected["source_channel"] = "Portal"
    /\ "intake_timestamp" \in DOMAIN collected
    /\ Unanswered = {"pricing_logic"}

\* analyze_gaps has returned
Analyzed == gap_result # NoResult

\* the key an entry of a result list is about
KeyOf(entry) == IF "attribute" \in DOMAIN entry THEN entry.attribute ELSE entry.key

KeysOf(list) == {KeyOf(list[i]) : i \in 1..Len(list)}

\* C16: the score is 100 x |strengths| / 16 rounded to an integer, the whole
\* reference table being the denominator: no integer is nearer to the
\* quotient than the score (whatever is done with a fraction of one half).
C16_ScoreIsRounded ==
    Analyzed =>
        LET exact16 == 100 * Len(gap_result.strengths)
            score16 == Len(SAP_BEST_PRACTICES) * gap_result.score
        IN  /\ 2 * (score16 - exact16) <= Len(SAP_BEST_PRACTICES)
            /\ 2 * (exact16 - score16) <= Len(SAP_BEST_PRACTICES)

\* C17: every key of the reference table is in exactly one of missing, gaps
\* and strengths, it is in missing iff it is absent from collected_data, keys
\* outside the table are in no list, and the score is the score of
\* collected_data without them.
C17_ListsPartitionTable ==
    Analyzed =>
        /\ KeysOf(gap_result.missing) = SapKeys \ DOMAIN gap_collected
        /\ KeysOf(gap_result.gaps) \cup KeysOf(gap_result.strengths)
               = SapKeys \cap DOMAIN gap_collected
        /\ KeysOf(gap_result.gaps) \cap KeysOf(gap_result.strengths) = {}
        /\ Len(gap_result.missing) + Len(gap_result.gaps) + Len(gap_result.strengths)
               = Cardinality(SapKeys)
        /\ gap_result.score =
               analyze_gaps([k \in DOMAIN gap_collected \cap SapKeys |->
                                gap_collected[k]]).score

\* a result for a collected_data that holds a key outside the table, some
\* keys of the table and not all of them
C17_Witness ==
    /\ Analyzed
    /\ UnknownKey \in DOMAIN gap_collected
    /\ gap_result.missing # <<>>
    /\ gap_result.strengths # <<>>

\* the issue of the earliest heuristic that matches, in the order manual
\* keywords, success rate, fragmentation keywords, notification
FirstMatch(row, current) ==
    IF ManualIssue(row, current, NoIssue) # NoIssue
    THEN ManualIssue(row, current, NoIssue)
    ELSE IF RateIssue(row, SelectSeq(current.head, IsDigit), NoIssue) # NoIssue
    THEN RateIssue(row, SelectSeq(current.head, IsDigit), NoIssue)
    ELSE IF FragmentationIssue(row, current, NoIssue) # NoIssue
    THEN FragmentationIssue(row, current, NoIssue)
    ELSE NotificationIssue(row, current, NoIssue)

\* C18: the issue attached to a gap is that of the first heuristic, in the
\* fixed order, that matches the value.
C18_FirstMatchDecides ==
    Analyzed =>
        \A i \in 1..Len(gap_result.gaps) :
            \A j \in 1..Len(SAP_BEST_PRACTICES) :
                SAP_BEST_PRACTICES[j].attribute = gap_result.gaps[i].attribute =>
                    gap_result.gaps[i].issue =
                        FirstMatch(SAP_BEST_PRACTICES[j],
                                   gap_collected[gap_result.gaps[i].attribute])

\* a short answer was given to a pending question or clarification prompt
ShortAnswer ==
    /\ Called
    /\ response.kind \in {"question", "clarification"}
    /\ last_call'.user_words < ShortAnswerWords

\* the attributes the pending prompt asks about
Pending == {response.attributes[i] : i \in 1..Len(response.attributes)}

\* the keys the call added to collected_data with an answer
NewlyAnswered ==
    {k \in DOMAIN order_state'.collected_data \ DOMAIN collected :
        order_state'.collected_data[k] # NotDiscussed}

\* C22 as written: after a short answer to a pending question the only keys
\* newly added to collected_data are keys the question asked for, whatever
\* else the reply of the oracle holds.
C22_OnlyPendingKeyAdded ==
    [][ShortAnswer => NewlyAnswered \subseteq Pending]_vars

\* C22 (amended): extraction is not narrowed to the pending question.  After
\* a short answer every pair of the oracle's reply with a non-null value is
\* in collected_data, asked for or not, and every key newly added comes from
\* the reply, or is set to the sentinel by the force-skip of a turn without a
\* capture.
C22_EveryExtractedKeyAdded ==
    [][ShortAnswer =>
          /\ \A k \in DOMAIN oracle_reply'.extracted :
                 oracle_reply'.extracted[k] # None =>
                     /\ k \in DOMAIN order_state'.collected_data
                     /\ order_state'.collected_data[k] = oracle_reply'.extracted[k]
          /\ \A k \in DOMAIN order_state'.collected_data \ DOMAIN collected :
                 \/ /\ k \in DOMAIN oracle_reply'.extracted
                    /\ oracle_reply'.extracted[k] # None
                 \/ /\ ~last_call'.captured_this_turn
                    /\ order_state'.collected_data[k] = NotDiscussed]_vars

\* a short answer to the question about the first subclass has added
\* pricing_logic, which that question did not ask for
C22_Witness ==
    /\ oracle_reply.reply = Text(<<"{", Member1, Member3, "}">>)
    /\ last_call.user_words < ShortAnswerWords
    /\ order_state.user_responses >= 2
    /\ "order_completeness_score" \notin DOMAIN collected
    /\ "pricing_logic" \in DOMAIN collected /\ collected["pricing_logic"] = "Portal"

\* subclass_attempts after the increment of a turn that captured nothing
AttemptsAfter ==
    IF order_state.last_subclass # FocusSubclass THEN 1
    ELSE order_state.subclass_attempts + 1

\* C23: while an attribute is unanswered, a turn is answered with a
\* clarification prompt exactly when nothing was captured, the utterance has
\* fewer than ShortAnswerWords words, clarification_count is below
\* ClarificationBudget and subclass_attempts, after this turn's increment, is
\* below SubclassAttemptBudget; the turn leaves collected_data and
\* question_count as they were, raises clarification_count by one and
\* restates the question of the first unanswered attribute of the focus
\* subclass.
C23_ClarificationTurn ==
    [][(Called /\ Unanswered # {}) =>
          /\ Clarified <=>
                 /\ ~last_call'.captured_this_turn
                 /\ last_call'.user_words < ShortAnswerWords
                 /\ order_state.clarification_count < ClarificationBudget
                 /\ AttemptsAfter < SubclassAttemptBudget
          /\ Clarified =>
                 /\ order_state'.collected_data = collected
                 /\ order_state'.question_count = order_state.question_count
                 /\ order_state'.clarification_count =
                        order_state.clarification_count + 1
                 /\ order_state'.subclass_attempts = AttemptsAfter
                 /\ response'.attributes = <<FirstUnanswered>>]_vars

\* the first clarification prompt after an answer: it restates the question
\* of the second attribute of the first subclass
C23_Witness ==
    /\ response = Reply("clarification", <<"order_completeness_score">>)
    /\ order_state.clarification_count = 1
    /\ order_state.question_count = 1
    /\ Answered("source_channel")

\* the non-optional attributes of the subclass of the run of idle turns
RunAttributes(run) ==
    {a \in MandatoryNames : get_attribute_info(a).subclass = run.subclass}

\* C24: when three turns in a row capture nothing while the focus stays on
\* one subclass, at the end of the third turn (whatever the utterance
\* lengths) every non-optional attribute of the subclass holds a value, the
\* ones that were unanswered holding the sentinel; a force-skip never
\* happens in a shorter run.
C24_ThreeIdleTurnsSkip ==
    [][Called =>
          /\ idle_run'.turns >= SubclassAttemptBudget =>
                 \A a \in RunAttributes(idle_run') :
                     /\ a \in DOMAIN order_state'.collected_data
                     /\ order_state'.collected_data[a] # None
                     /\ a \in Unanswered =>
                            order_state'.collected_data[a] = NotDiscussed
          /\ SkipRan => idle_run'.turns >= SubclassAttemptBudget]_vars

\* the third idle turn on the second subclass, a long utterance, has skipped
\* it; the first subclass was answered
C24_Witness ==
    /\ idle_run = [subclass |-> "Commercial Validation", turns |-> SubclassAttemptBudget]
    /\ last_call.user_words >= ShortAnswerWords
    /\ collected["pricing_logic"] = NotDiscussed
    /\ collected["source_channel"] \in Values

\* C25: the context given to the extraction of a turn holds, in transcript
\* order, the ContextEntries entries (three exchanges) that precede the
\* utterance of the turn, or all the preceding entries when there are fewer.
C25_ContextCoversThreeExchanges ==
    last_call # NoCall =>
        LET before == last_call.utterance - 1
            wanted == IF before >= ContextEntries THEN ContextEntries ELSE before
        IN  /\ \A p \in (last_call.utterance - wanted)..before :
                   \E i \in 1..Len(last_call.context) : last_call.context[i] = p
            /\ \A i, j \in 1..Len(last_call.context) :
                   i < j => last_call.context[i] < last_call.context[j]

\* the success rates the texts state, in tenths of a percent: the number read
\* after the leading characters that are not digits
StatedRate ==
    [text \in {"70%", "about 70%", "9.5%", "92%", "95%"} |->
        CASE text \in {"70%", "about 70%"} -> 700
          [] text = "9.5%" -> 95
          [] text = "92%" -> 920
          [] text = "95%" -> 950]

\* C26: a verification_success_rate whose text states a rate below 90 is a
\* gap, leading non-digit characters being skipped and the number read; a
\* rate of 90 or more is not flagged (these texts match no other heuristic,
\* so the key is then a strength).
C26_RateBelowNinetyIsGap ==
    (/\ Analyzed
     /\ "verification_success_rate" \in DOMAIN gap_collected
     /\ gap_collected["verification_success_rate"].text \in DOMAIN StatedRate)
        => LET rate == StatedRate[gap_collected["verification_success_rate"].text]
           IN  /\ rate < 900 =>
                      "verification_success_rate" \in KeysOf(gap_result.gaps)
               /\ rate >= 900 =>
                      "verification_success_rate" \in KeysOf(gap_result.strengths)

\* the first top-level object of a reply text: from its first opening brace
\* to the first closing brace after it (the objects are flat)
FirstObject(text) ==
    LET opens == {i \in 1..Len(text) : text[i] = "{"}
        start == CHOOSE i \in opens : \A j \in opens : i <= j
        closes == {i \in start..Len(text) : text[i] = "}"}
    IN  IF opens = {} \/ closes = {} THEN <<>>
        ELSE SubSeq(text, start, CHOOSE i \in closes : \A j \in closes : i <= j)

\* C27: when the first top-level object of the oracle's reply is valid JSON,
\* the extraction is the mapping of that object, whatever text precedes or
\* follows it (text holding a closing brace or a second object included).
C27_FirstObjectIsParsed ==
    (/\ oracle_reply.reply.kind = "text"
     /\ json_loads(FirstObject(oracle_reply.reply.text)).ok)
        => oracle_reply.extracted = json_loads(FirstObject(oracle_reply.reply.text)).value

\* C28: after every handle_message call the session is in mode ORDER_MGMT
\* exactly when it holds an interview that is active; an interview completed
\* by the message that started it leaves the mode at GENERAL.
C28_ModeFollowsActive ==
    (mode = "ORDER_MGMT") <=> (has_order_state /\ order_state.active)

RECURSIVE Concatenated(_)
Concatenated(missing_by_subclass) ==
    IF missing_by_subclass = <<>> THEN <<>>
    ELSE Head(missing_by_subclass).attributes \o Concatenated(Tail(missing_by_subclass))

FlowKeys == {SUBCLASS_FLOW_ORDER[i] : i \in 1..Len(SUBCLASS_FLOW_ORDER)}

\* C29: the two orderings of the schema agree.  The 'order' values of
\* REQUIRED_ATTRIBUTES are pairwise distinct, the (class, subclass) of every
\* non-optional attribute is in SUBCLASS_FLOW_ORDER, and for the
\* collected_data of every state get_current_focus_area is None exactly when
\* get_missing_attributes is empty and the attribute lists of
\* get_missing_by_subclass, concatenated in order, are get_missing_attributes.
C29_OrderingsAgree ==
    /\ \A i, j \in 1..Len(REQUIRED_ATTRIBUTES) :
           i # j => REQUIRED_ATTRIBUTES[i].order # REQUIRED_ATTRIBUTES[j].order
    /\ \A i \in 1..Len(REQUIRED_ATTRIBUTES) :
           ~REQUIRED_ATTRIBUTES[i].optional =>
               <<REQUIRED_ATTRIBUTES[i].class, REQUIRED_ATTRIBUTES[i].subclass>> \in FlowKeys
    /\ (get_current_focus_area(collected) = NoFocus)
           <=> (get_missing_attributes(collected) = <<>>)
    /\ Concatenated(get_missing_by_subclass(collected)) = get_missing_attributes(collected)

\* answers with holes: inside Credit Governance one attribute is answered
\* and the focus is on the rest, a later subclass is answered whole, and
\* subclasses of three classes are still missing
C29_Witness ==
    /\ REQUIRED_ATTRIBUTES = SchemaTable
    /\ order_state.active
    /\ Answered("risk_scoring") /\ ~Answered("credit_limit")
    /\ Answered("tax_id") /\ ~Answered("kpis")
    /\ get_current_focus_area(collected).attributes =
           <<"credit_limit", "approval_workflow", "order_status">>
    /\ Len(get_missing_by_subclass(collected)) > 3

\* the attributes REQUIRED_ATTRIBUTES marks optional, and the others
OptionalNames ==
    {REQUIRED_ATTRIBUTES[i].name :
        i \in {j \in 1..Len(REQUIRED_ATTRIBUTES) : REQUIRED_ATTRIBUTES[j].optional}}

RequiredNames ==
    {REQUIRED_ATTRIBUTES[i].name :
        i \in {j \in 1..Len(REQUIRED_ATTRIBUTES) : ~REQUIRED_ATTRIBUTES[j].optional}}

\* the subclasses all of whose attributes are optional
OptionalSubclasses ==
    {REQUIRED_ATTRIBUTES[i].subclass : i \in 1..Len(REQUIRED_ATTRIBUTES)}
    \ {get_attribute_info(a).subclass : a \in RequiredNames}

ItemsOf(list) == {list[i] : i \in 1..Len(list)}

\* C30: optional attributes never gate or steer the interview.  None is in
\* the missing list, in the focus area or among the attributes asked about;
\* none holds the sentinel of a force-skip; a subclass whose attributes are
\* all optional is never the focus; and the interview is complete exactly
\* when every non-optional attribute has a value, so that a call that finds
\* it complete ends it whatever optional attributes were captured.
C30_OptionalNeverSteers ==
    /\ ItemsOf(get_missing_attributes(collected)) \cap OptionalNames = {}
    /\ ItemsOf(get_current_focus_area(collected).attributes) \cap OptionalNames = {}
    /\ ItemsOf(order_state.current_focus.attributes) \cap OptionalNames = {}
    /\ ItemsOf(response.attributes) \cap OptionalNames = {}
    /\ \A a \in OptionalNames \cap DOMAIN collected : collected[a] # NotDiscussed
    /\ get_current_focus_area(collected).subclass \notin OptionalSubclasses
    /\ order_state.current_focus.subclass \notin OptionalSubclasses
    /\ is_complete(collected) <=> \A a \in RequiredNames : Answered(a)
    /\ ~order_state.active => is_complete(collected)
    /\ (order_state.user_responses > 0 /\ is_complete(collected)
            /\ response.kind # "question") => ~order_state.active

\* Warehouse Operations was force-skipped: its non-optional attribute holds
\* the sentinel, its optional ones were left alone, and the focus moved to
\* the non-optional attributes of Transportation Management
C30_Witness ==
    /\ REQUIRED_ATTRIBUTES = SchemaTable
    /\ Answered("picking_document_type")
    /\ collected["picking_document_type"] = NotDiscussed
    /\ "packing_status" \notin DOMAIN collected
    /\ "system_reliability_metric" \notin DOMAIN collected
    /\ order_state.current_focus.attributes =
           <<"carrier_selection", "tracking_id", "data_integrity_type">>
    /\ response.kind = "question"

\* C31: at the end of every process_input call clarification_count and
\* subclass_attempts are between 0 and 2 (an attempt count that reaches
\* SubclassAttemptBudget is consumed by the force-skip of the same call), and
\* a call that captures a value leaves both counters at 0.
C31_CountersBoundedAndReset ==
    [][Called =>
          /\ order_state'.clarification_count \in 0..ClarificationBudget
          /\ order_state'.subclass_attempts \in 0..(SubclassAttemptBudget - 1)
          /\ last_call'.captured_this_turn =>
                 /\ order_state'.clarification_count = 0
                 /\ order_state'.subclass_attempts = 0]_vars

\* C31 with the completing call set apart: the counters stay within their
\* bounds, a call that captures a value and goes on to a question leaves both
\* at 0, and the call that completes the interview returns before the
\* counters are touched and leaves them as they were.
C31_CountersResetUnlessCompleting ==
    [][Called =>
          /\ order_state'.clarification_count \in 0..ClarificationBudget
          /\ order_state'.subclass_attempts \in 0..(SubclassAttemptBudget - 1)
          /\ (last_call'.captured_this_turn /\ response'.kind # "completion") =>
                 /\ order_state'.clarification_count = 0
                 /\ order_state'.subclass_attempts = 0
          /\ response'.kind = "completion" =>
                 /\ order_state'.clarification_count = order_state.clarification_count
                 /\ order_state'.subclass_attempts = order_state.subclass_attempts]_vars

\* the first call was answered with a clarification (no question was counted
\* for it), the second captured a value and both counters are back at 0
C31_Witness ==
    /\ order_state.user_responses = 2
    /\ order_state.question_count = 1
    /\ order_state.active
    /\ last_call.captured_this_turn
    /\ order_state.clarification_count = 0
    /\ order_state.subclass_attempts = 0

\* C32: the transcript is well formed.  After start_conversation and n
\* process_input calls conversation_history has 1 + 2n entries that alternate
\* Bot, User, Bot, ..., every call having appended one User entry and then
\* one Bot entry, and user_responses has n entries.
C32_TranscriptWellFormed ==
    (has_order_state /\ started > 0) =>
        /\ Len(order_state.conversation_history) = 1 + 2 * order_state.user_responses
        /\ \A i \in 1..Len(order_state.conversation_history) :
               order_state.conversation_history[i] = IF i % 2 = 1 THEN "Bot" ELSE "User"

\* C33: in GENERAL mode a message routed to ORDER_MGMT starts a fresh
\* interview.  A message of at most TriggerWords words is not processed as an
\* answer: the state is the one start_conversation made (collected_data
\* empty, the transcript holding the opening only) and the opening question
\* is returned.  A longer message is processed as the first answer in the
\* same call.  A message routed to OTHER gets the refusal and creates or
\* changes no order_state.
C33_RoutingInGeneralMode ==
    [][mode # "ORDER_MGMT" =>
          /\ last_message'.intent = "ORDER_MGMT" =>
                 /\ mode' = "ORDER_MGMT"
                 /\ has_order_state'
                 /\ started' = started + 1
                 /\ last_message'.user_words <= TriggerWords =>
                        /\ order_state' = start_conversation.state
                        /\ order_state'.collected_data = EmptyData
                        /\ order_state'.conversation_history = <<"Bot">>
                        /\ response' = start_conversation.response
                        /\ last_call' = last_call
                        /\ records' = records
                 /\ last_message'.user_words > TriggerWords =>
                        /\ order_state'.user_responses = 1
                        /\ last_call'.user_words = last_message'.user_words
                        /\ last_call'.utterance = 2
                        /\ \E extracted \in SessionExtractions :
                               /\ order_state' =
                                      process_input(last_message'.user_words, extracted,
                                                    start_conversation.state).state
                               /\ response' =
                                      process_input(last_message'.user_words, extracted,
                                                    start_conversation.state).response
          /\ last_message'.intent = "OTHER" =>
                 /\ response'.kind = "refusal"
                 /\ has_order_state' = has_order_state
                 /\ order_state' = order_state
                 /\ started' = started
                 /\ records' = records
                 /\ mode' = "GENERAL"]_vars

\* a second interview of the session, started by a long message that was
\* processed as its first answer, after the first one was completed
C33_Witness ==
    /\ last_message.intent = "ORDER_MGMT"
    /\ last_message.user_words > TriggerWords
    /\ started = 2
    /\ records = 1
    /\ order_state.active
    /\ order_state.user_responses = 1
    /\ Cardinality(DOMAIN collected) = 1

SchemaKeys == {REQUIRED_ATTRIBUTES[i].name : i \in 1..Len(REQUIRED_ATTRIBUTES)}

\* C34: the reference table of the gap analyzer is keyed by attributes the
\* interview captures.  Every key of SAP_BEST_PRACTICES is a key of
\* REQUIRED_ATTRIBUTES, and for the collected_data of a completed interview
\* that holds schema keys only analyze_gaps classifies reference keys as gap
\* or strength instead of listing all of them as missing.
C34_ReferenceKeysAreSchemaKeys ==
    (/\ ~order_state.active
     /\ DOMAIN collected \subseteq SchemaKeys)
        => /\ SapKeys \subseteq SchemaKeys
           /\ Len(analyze_gaps(collected).missing) < Len(SAP_BEST_PRACTICES)
           /\ Len(analyze_gaps(collected).gaps) + Len(analyze_gaps(collected).strengths) > 0

\* C35: the shortcut of analyze_gaps for empty collected_data agrees with the
\* general path.  Whenever no reference key is captured, for empty data as
\* for data holding other keys only, the result has the six fields of the
\* general path, its missing entries are records carrying 'attribute', one
\* per reference key, captured_count is 0, total_required is the size of the
\* table and score is 0.
C35_ShortcutAgreesWithGeneralPath ==
    (Analyzed /\ DOMAIN gap_collected \cap SapKeys = {}) =>
        /\ DOMAIN gap_result =
               {"gaps", "strengths", "missing", "score", "captured_count", "total_required"}
        /\ gap_result.gaps = <<>>
        /\ gap_result.strengths = <<>>
        /\ gap_result.score = 0
        /\ gap_result.captured_count = 0
        /\ gap_result.total_required = Len(SAP_BEST_PRACTICES)
        /\ gap_result.missing =
               [i \in 1..Len(SAP_BEST_PRACTICES) |-> MissingEntry(SAP_BEST_PRACTICES[i])]

\* the state an interview reaches when its calls are made alone, on a state
\* start_conversation returned
RECURSIVE Replay(_)
Replay(inputs) ==
    IF inputs = <<>> THEN start_conversation.state
    ELSE process_input(inputs[Len(inputs)].user_words, inputs[Len(inputs)].extracted,
                       Replay(SubSeq(inputs, 1, Len(inputs) - 1))).state

\* C36: sessions are isolated.  However the calls on two interviews are
\* interleaved on one OrderManager, the collected_data, the counters and the
\* transcript of each interview are those its own calls give when run alone.
C36_SessionsIsolated ==
    \A s \in DOMAIN session_states :
        Deref(session_states[s], heap) = Replay(session_inputs[s])

\* the calls alternated between the two interviews, which captured
\* different things
C36_Witness ==
    /\ DOMAIN session_states = Sessions
    /\ Len(session_inputs[1]) = 2 /\ Len(session_inputs[2]) = 2
    /\ session_inputs[1][1].place < session_inputs[2][1].place
    /\ session_inputs[2][1].place < session_inputs[1][2].place
    /\ session_inputs[1][2].place < session_inputs[2][2].place
    /\ Deref(session_states[1], heap).collected_data
           # Deref(session_states[2], heap).collected_data
    /\ ~Deref(session_states[1], heap).active
    /\ Deref(session_states[2], heap).active

====
